---------------------------- MODULE Spec2Model ----------------------------
(***************************************************************************)
(* A model of gpio.py: the GPIO facade of the 8 channel usb gpio module,   *)
(* its line assembly over a non-blocking serial port, the scoped session   *)
(* open() and the command line entry main().                               *)
(*                                                                         *)
(* A byte string is a sequence of one-character strings; the fixed words   *)
(* of a command ("gpio read ", "id set ", ...) travel as one element each, *)
(* so a chunk boundary falls between any two elements of a response.       *)
(* A Python value is a record [t, i, s]: t is "none", "int", "str" or      *)
(* "bytes", i the integer and s the characters.                            *)
(***************************************************************************)
EXTENDS Integers, Sequences, FiniteSets, TLC

\* ------------------------------------------------------------------ bounds
\* operations one behaviour starts
MaxOps == 2
\* partial deliveries (a burst that leaves bytes of the response behind)
MaxBursts == 1

\* ------------------------------------------------------------- bytes, values
CR == "\r"
NL == "\n"
PROMPT == ">"
SP == " "

None == [t |-> "none", i |-> 0, s |-> <<>>]
IntV(n) == [t |-> "int", i |-> n, s |-> <<>>]
StrV(x) == [t |-> "str", i |-> 0, s |-> x]
BytesV(x) == [t |-> "bytes", i |-> 0, s |-> x]

Digits == <<"0", "1", "2", "3", "4", "5", "6", "7", "8", "9",
            "a", "b", "c", "d", "e", "f">>

Abs(n) == IF n < 0 THEN -n ELSE n

RECURSIVE Repeat(_, _)
Repeat(c, n) == IF n <= 0 THEN <<>> ELSE <<c>> \o Repeat(c, n - 1)

\* the digits of n >= 0 in base b, most significant first
RECURSIVE ToBase(_, _)
ToBase(n, b) ==
    IF n < b THEN <<Digits[n + 1]>>
    ELSE ToBase(n \div b, b) \o <<Digits[(n % b) + 1]>>

\* format(v, '0<w><type>'): sign, then zeros up to the width, then the digits
FormatInt(v, b, w) ==
    LET d == ToBase(Abs(v), b)
        sign == IF v < 0 THEN <<"-">> ELSE <<>>
    IN  sign \o Repeat("0", w - Len(sign) - Len(d)) \o d

\* f'{v:02x}'
Fmt02x(v) == FormatInt(v, 16, 2)

\* f'{v:08}'
Fmt08(v) == FormatInt(v, 10, 8)

\* f'{v:08b}'
Fmt08b(v) == FormatInt(v, 2, 8)

\* f'{channel}' and str(int)
StrInt(v) == FormatInt(v, 10, 0)

\* f'{s:>8}'
RJust8(s) == Repeat(SP, 8 - Len(s)) \o s

\* s[:n]
Take(s, n) == SubSeq(s, 1, IF Len(s) < n THEN Len(s) ELSE n)

\* a & b of Python's unbounded two's complement integers, for b >= 0
RECURSIVE BitAnd(_, _)
BitAnd(a, b) ==
    IF b = 0 THEN 0
    ELSE (a % 2) * (b % 2) + 2 * BitAnd(a \div 2, b \div 2)

\* a >> n & 1
BitOf(a, n) == (a \div (2 ^ n)) % 2

\* int() reads the letters of a digit in either case
UpperDigits == <<"0", "1", "2", "3", "4", "5", "6", "7", "8", "9",
                 "A", "B", "C", "D", "E", "F">>

DigitVal(c) == CHOOSE k \in 0..15 : Digits[k + 1] = c \/ UpperDigits[k + 1] = c

IsDigit(c, b) == \E k \in 0..(b - 1) : Digits[k + 1] = c \/ UpperDigits[k + 1] = c

IsSpace(c) == c \in {SP, CR, NL}

RECURSIVE LStrip(_)
LStrip(s) == IF s # <<>> /\ IsSpace(s[1]) THEN LStrip(Tail(s)) ELSE s

RECURSIVE RStrip(_)
RStrip(s) ==
    IF s # <<>> /\ IsSpace(s[Len(s)]) THEN RStrip(SubSeq(s, 1, Len(s) - 1)) ELSE s

RECURSIVE DigitsValue(_, _)
DigitsValue(s, b) ==
    IF s = <<>> THEN 0
    ELSE b * DigitsValue(SubSeq(s, 1, Len(s) - 1), b) + DigitVal(s[Len(s)])

\* int(x, b) of a bytes value: surrounding white space, an optional sign, digits
IntParse(x, b) ==
    LET s == RStrip(LStrip(x))
        neg == s # <<>> /\ s[1] = "-"
        d == IF s # <<>> /\ s[1] \in {"-", "+"} THEN Tail(s) ELSE s
    IN  IF d # <<>> /\ \A k \in 1..Len(d) : IsDigit(d[k], b)
        THEN [v |-> IF neg THEN -DigitsValue(d, b) ELSE DigitsValue(d, b), ok |-> TRUE]
        ELSE [v |-> 0, ok |-> FALSE]

\* ---------------------------------------------------------- command encoder
\* value getter: 'gpio readall'
CmdReadall == <<"gpio readall">>

\* the value setter without its v &= 255
CmdWriteallUnmasked(v) == <<"gpio writeall ">> \o Fmt02x(v)

\* the value setter formatting with {v:x}
CmdWriteallNoPad(v) == <<"gpio writeall ">> \o FormatInt(BitAnd(v, 255), 16, 0)

\* value setter: v &= 255; f'gpio writeall {v:02x}'
CmdWriteall(v) == <<"gpio writeall ">> \o Fmt02x(BitAnd(v, 255))

\* version: 'ver'
CmdVer == <<"ver">>

\* _gpio_read: f'gpio read {channel}'
CmdGpioRead(channel) == <<"gpio read ">> \o StrInt(channel)

\* _gpio_write choosing from ['set', 'clear']
CmdGpioWriteSwapped(channel, b) ==
    <<IF b # 0 THEN "gpio clear " ELSE "gpio set ">> \o StrInt(channel)

\* _gpio_write: ['clear', 'set'][bool(b)]; f'gpio {cmd} {channel}'
CmdGpioWrite(channel, b) ==
    <<IF b # 0 THEN "gpio set " ELSE "gpio clear ">> \o StrInt(channel)

\* _adc_read: f'adc read {channel}'
CmdAdcRead(channel) == <<"adc read ">> \o StrInt(channel)

\* id getter: 'id get'
CmdIdGet == <<"id get">>

\* the id setter without its [:8]
CmdIdSetUncut(value) ==
    <<"id set ">> \o RJust8(IF value.t = "int" THEN Fmt08(value.i) ELSE value.s)

\* id setter: the int as f'{value:08}', then str(value)[:8], then f'{value:>8}'
CmdIdSet(value) ==
    LET padded == IF value.t = "int" THEN Fmt08(value.i) ELSE value.s
    IN  <<"id set ">> \o RJust8(Take(padded, 8))

\* set_mask: f'gpio iomask {value:02x}'
CmdIomask(value) == <<"gpio iomask ">> \o Fmt02x(value)

\* set_iodir: f'gpio iodir {value:02x}'
CmdIodir(value) == <<"gpio iodir ">> \o Fmt02x(value)

\* ------------------------------------------------------------------ device
\* The module at the other end of the port, as the comments of gpio.py
\* describe it: it echoes the command, answers a query with a line
\* '\r' payload '\n', and ends with the prompt '\r>'.
DevVersion == <<"A", "8">>

\* what the pin of an analog channel may read
AdcLevels == {0, 1023}

\* when g.adc_in[0] is reading < 440, g.digit_in[0] normally reads 0
DigitThreshold == 440

\* the digital level of a pin that nothing of the module drives
Level(adc) == IF adc < DigitThreshold THEN 0 ELSE 1

\* mask is kept in ROM; IO init to 0xff (all read); value init to 0.
\* analog: the pins last used by adc read; pulled: the pins whose pull-up
\* resistor a set has switched on.
DevInit == [id |-> Repeat("0", 8), reg |-> 0, mask |-> 255, iodir |-> 255,
            analog |-> 0, pulled |-> 0]

\* (v & m) | (old & ~m) on 8 bits
RECURSIVE Gate(_, _, _, _)
Gate(v, m, old, n) ==
    IF n = 0 THEN 0
    ELSE (IF m % 2 = 1 THEN v % 2 ELSE old % 2)
         + 2 * Gate(v \div 2, m \div 2, old \div 2, n - 1)

SetBit(x, n, b) == x - BitOf(x, n) * (2 ^ n) + b * (2 ^ n)

\* What a digital read finds on pin n: 0 on a pin that is adc reading, the
\* register's bit on an output pin, the real value on an input pin (1 when a
\* set has pulled it up).
PinRead(d, n, adc) ==
    IF BitOf(d.analog, n) = 1 THEN 0
    ELSE IF BitOf(d.iodir, n) = 0 THEN BitOf(d.reg, n)
    ELSE IF BitOf(d.pulled, n) = 1 THEN 1
    ELSE Level(adc)

\* the pins 0..n-1 as gpio readall reports them
RECURSIVE PinsValue(_, _, _)
PinsValue(d, n, adc) ==
    IF n = 0 THEN 0
    ELSE PinsValue(d, n - 1, adc) + PinRead(d, n - 1, adc) * (2 ^ (n - 1))

IsHex2(a) == Len(a) = 2 /\ IsDigit(a[1], 16) /\ IsDigit(a[2], 16)

IsChannel(a) == Len(a) = 1 /\ IsDigit(a[1], 8)

\* the analog channels ADC0 .. ADC5
ADC_MAX == 6

IsAdcChannel(a) == Len(a) = 1 /\ IsDigit(a[1], ADC_MAX)

\* the pin of an analog channel: IO0 ADC0, IO1 ADC1, IO2 ADC2, IO3 ADC3,
\* IO4 NA, IO5 NA, IO6 ADC4, IO7 ADC5
AdcPin(n) == IF n < 4 THEN n ELSE n + 2

\* The device's answer to one command line: [has, payload, dev]; a command it
\* does not understand gets the echo and the prompt only.
DevAnswer(cmd, d, adc) ==
    LET word == cmd[1]
        arg == Tail(cmd)
        no == [has |-> FALSE, payload |-> <<>>, dev |-> d]
        ch == DigitVal(arg[1])
        x == DigitsValue(arg, 16)
    IN  CASE word = "gpio readall" ->
               [has |-> TRUE, payload |-> Fmt02x(PinsValue(d, 8, adc)), dev |-> d]
          [] word = "ver" ->
               [has |-> TRUE, payload |-> DevVersion, dev |-> d]
          [] word = "id get" ->
               [has |-> TRUE, payload |-> d.id, dev |-> d]
          [] word = "id set " /\ Len(arg) = 8 ->
               [no EXCEPT !.dev.id = arg]
          [] word = "gpio writeall " /\ IsHex2(arg) ->
               [no EXCEPT !.dev.reg = Gate(x, d.mask, d.reg, 8)]
          [] word = "gpio iomask " /\ IsHex2(arg) ->
               [no EXCEPT !.dev.mask = x]
          [] word = "gpio iodir " /\ IsHex2(arg) ->
               [no EXCEPT !.dev.iodir = Gate(x, d.mask, d.iodir, 8),
                          !.dev.analog = BitAnd(d.analog, Gate(x, d.mask, d.iodir, 8))]
          [] word = "gpio read " /\ IsChannel(arg) ->
               [has |-> TRUE, payload |-> StrInt(PinRead(d, ch, adc)),
                dev |-> [d EXCEPT !.iodir = SetBit(d.iodir, ch, 1)]]
          [] word = "gpio set " /\ IsChannel(arg) ->
               [no EXCEPT !.dev.reg = SetBit(d.reg, ch, 1),
                          !.dev.iodir = SetBit(d.iodir, ch, 0),
                          !.dev.analog = SetBit(d.analog, ch, 0),
                          !.dev.pulled = SetBit(d.pulled, ch, 1)]
          [] word = "gpio clear " /\ IsChannel(arg) ->
               [no EXCEPT !.dev.reg = SetBit(d.reg, ch, 0),
                          !.dev.iodir = SetBit(d.iodir, ch, 0),
                          !.dev.analog = SetBit(d.analog, ch, 0),
                          !.dev.pulled = SetBit(d.pulled, ch, 0)]
          [] word = "adc read " /\ IsAdcChannel(arg) ->
               [has |-> TRUE, payload |-> StrInt(adc),
                dev |-> [d EXCEPT !.iodir = SetBit(d.iodir, AdcPin(ch), 1),
                                  !.analog = SetBit(d.analog, AdcPin(ch), 1),
                                  !.pulled = SetBit(d.pulled, AdcPin(ch), 0)]]
          [] OTHER -> no

\* lines[-3] is the command itself, lines[-2] is the result, begin with '\r'
\* and end with '\n', lines[-1] is the prompt '\r>'
DevResponse(cmd, a) ==
    cmd \o <<NL>>
        \o (IF a.has THEN <<CR>> \o a.payload \o <<NL>> ELSE <<>>)
        \o <<CR, PROMPT>>

\* ------------------------------------------------------------------- state
VARIABLES
    how,        \* who drives the facade: "direct" (the owner of a GPIO) or "cli" (main)
    script,     \* the operations the owner performs, in order (<<>>: any, up to MaxOps)
    argv,       \* main's arguments [mode, channel, value]
    sess,       \* the caller's place: "new", "ready", "body", "done"
    port,       \* self._serial_port: "none", "open", "closed"
    raised,     \* the exception that reached the direct caller of the session ("" for none)
    printed,    \* what main printed
    pc,         \* the facade's place: "idle", "skip" (first loop), "collect" (second loop)
    op,         \* the operation in progress or last finished [api, channel, value]
    stage,      \* __repr__: which of its three queries is in progress
    acc,        \* __repr__: the values read so far
    lines,      \* _read / _consume: lines
    line,       \* _read / _consume: line
    out,        \* how the last operation ended [kind, val, exc]
    raw,        \* what the last _read returned
    tx,         \* bytes written to the port that the device has not yet taken
    inflight,   \* bytes the device has sent that have not yet arrived
    rx,         \* bytes that have arrived and wait for readline
    dev,        \* the device's registers [id, reg, mask, iodir]
    nops,       \* operations started
    bursts,     \* partial deliveries so far
    wlog,       \* the commands the operation in progress has written
    written,    \* commands written since the port was opened
    answered,   \* commands the device has answered
    lastAns,    \* the device's last answer since the operation started
                \* [cmd, has, payload, before: the registers it found]
    idArg,      \* the value of the last id assignment
    gapped,     \* an operation has ended before its response was drained
    desync,     \* a framing assertion has failed on this session
    ioafter,    \* the facade has used the port after a framing assertion failed
    sharing,    \* "alone": one caller; "free": a second caller uses the facade when
                \* it likes; "mutex": each whole operation of either is under a mutex
    pcB,        \* the second caller's place in version: "idle", "skip", "collect"
    opB,        \* the second caller's operation
    linesB,     \* the second caller's _read: lines
    lineB,      \* the second caller's _read: line
    outB,       \* how the second caller's operation ended
    rawB        \* what the second caller's _read returned

otherVars == <<sharing, pcB, opB, linesB, lineB, outB, rawB>>
ownerVars == <<how, argv, script, sess, port, raised, printed>>
sessVars == <<ownerVars, otherVars>>
facVars == <<pc, op, stage, acc, lines, line, out, raw>>
wireVars == <<tx, inflight, rx, dev, bursts, answered, lastAns>>
logVars == <<nops, wlog, written, gapped, desync, ioafter, idArg>>
vars == <<how, argv, script, sess, port, raised, printed, pc, op, stage, acc, lines,
          line, out, raw, tx, inflight, rx, dev, nops, bursts, wlog, written,
          answered, lastAns, idArg, gapped, desync, ioafter, sharing, pcB, opB,
          linesB, lineB, outB, rawB>>

\* ------------------------------------------------------------------ inputs
Channels == {-1, 0, 4, 7, 8}
Values == {-1, 0, 10, 255, 256}
Bits == {-1, 0, 1, 2}
\* what GPIO[...] is indexed with: integers, and a key that is not an int
Keys == {IntV(-1), IntV(0), IntV(7), IntV(8), StrV(<<"3">>)}
IdValues == {IntV(0), IntV(291), IntV(-1), IntV(123456789),
             StrV(<<"0", "1", "2", "3", "4", "5", "6", "7", "8", "9",
                    "a", "b", "c", "d", "e", "f">>),
             StrV(<<"a", "b">>)}
Argvs == [channel : Channels, value : {None, IntV(0), IntV(1), IntV(2)},
          mode : {"adc", "digit"}]
NoArgv == [channel |-> 0, value |-> None, mode |-> ""]

\* an operation: key is the type of the channel it was given
Op(api, channel, value) ==
    [channel |-> channel, value |-> value, api |-> api, key |-> "int"]

\* GPIO[key] and GPIO[key] = value, whatever the key is
KeyOp(api, k, value) ==
    [channel |-> (IF k.t = "int" THEN k.i ELSE 0), value |-> value, api |-> api,
     key |-> k.t]
NoOp == Op("", 0, None)

Ret(v) == [kind |-> "ret", val |-> v, exc |-> ""]
Exc(e) == [kind |-> "exc", val |-> None, exc |-> e]
NoOut == [kind |-> "none", val |-> None, exc |-> ""]
NoAns == [cmd |-> <<>>, has |-> FALSE, payload |-> <<>>, before |-> DevInit]

Queries == {"value_get", "version", "digit_in", "adc_in", "id_get"}

\* __repr__ evaluates self.version, self.id, self.value in this order
ReprSeq == <<"version", "id_get", "value_get">>

\* the query or write-only command in progress: __repr__ and __getitem__
\* call the getters
CurApi ==
    CASE op.api = "repr" -> ReprSeq[stage]
      [] op.api = "getitem" -> IF wlog = <<>> THEN "" ELSE "value_get"
      [] op.api = "setitem" -> IF wlog = <<>> THEN "" ELSE "digit_out"
      [] OTHER -> op.api

IsQuery == CurApi \in Queries

\* not value: None and 0 are false
Truthy(v) == v.t = "int" /\ v.i # 0

Drained == tx = <<>> /\ inflight = <<>> /\ rx = <<>>

\* the state before the port is opened, for the drivers hows, the scripts
\* of the set scripts and the ways of sharing the facade
InitAs(hows, scripts, sharings) ==
    /\ how \in hows
    /\ script \in scripts
    /\ sharing \in sharings
    /\ pcB = "idle"
    /\ opB = NoOp
    /\ linesB = <<>>
    /\ lineB = <<>>
    /\ outB = NoOut
    /\ rawB = None
    /\ argv \in (IF how = "cli" THEN Argvs ELSE {NoArgv})
    /\ sess = "new"
    /\ port = "none"
    /\ raised = ""
    /\ printed = None
    /\ pc = "idle"
    /\ op = NoOp
    /\ stage = 1
    /\ acc = <<>>
    /\ lines = <<>>
    /\ line = <<>>
    /\ out = NoOut
    /\ raw = None
    /\ tx = <<>>
    /\ inflight = <<>>
    /\ rx = <<>>
    /\ dev = DevInit
    /\ nops = 0
    /\ bursts = 0
    /\ wlog = <<>>
    /\ written = 0
    /\ answered = 0
    /\ lastAns = NoAns
    /\ idArg = None
    /\ gapped = FALSE
    /\ desync = FALSE
    /\ ioafter = FALSE

Init == InitAs({"direct", "cli"}, {<<>>}, {"alone"})

\* --------------------------------------------------------------- transport
\* serial.Serial(port_file, 19200, timeout=0).readline(): the bytes up to and
\* with the first '\n' that has arrived, or all that has arrived (maybe none)
Readline(buf) ==
    IF \E k \in 1..Len(buf) : buf[k] = NL
    THEN SubSeq(buf, 1, CHOOSE k \in 1..Len(buf) :
                            buf[k] = NL /\ \A j \in 1..(k - 1) : buf[j] # NL)
    ELSE buf

AfterReadline(buf) == SubSeq(buf, Len(Readline(buf)) + 1, Len(buf))

\* the first command line of the bytes written, without its '\r'
FirstCommand(buf) ==
    SubSeq(buf, 1, (CHOOSE k \in 1..Len(buf) :
                        buf[k] = CR /\ \A j \in 1..(k - 1) : buf[j] # CR) - 1)

\* The device takes one command line, acts on it and sends its response.
DeviceRespond ==
    /\ port = "open"
    /\ tx # <<>>
    /\ LET cmd == FirstCommand(tx)
       IN  \E adc \in (IF cmd[1] \in {"adc read ", "gpio read ", "gpio readall"}
                       THEN AdcLevels ELSE {0}) :
              LET a == DevAnswer(cmd, dev, adc)
              IN  /\ dev' = a.dev
                  /\ inflight' = inflight \o DevResponse(cmd, a)
                  /\ tx' = SubSeq(tx, Len(cmd) + 2, Len(tx))
                  /\ answered' = answered + 1
                  /\ lastAns' = [cmd |-> cmd, has |-> a.has, payload |-> a.payload,
                                  before |-> dev]
    /\ UNCHANGED <<sessVars, facVars, logVars, rx, bursts>>

\* Some of the bytes the device has sent arrive: all of them, or (a partial
\* delivery) only the first k.
Arrive ==
    /\ port = "open"
    /\ \E k \in 1..Len(inflight) :
          /\ k = Len(inflight) \/ bursts < MaxBursts
          /\ rx' = rx \o SubSeq(inflight, 1, k)
          /\ inflight' = SubSeq(inflight, k + 1, Len(inflight))
          /\ bursts' = IF k < Len(inflight) THEN bursts + 1 ELSE bursts
    /\ UNCHANGED <<sessVars, facVars, logVars, tx, dev, answered, lastAns>>

\* ------------------------------------------------------------------ facade
\* _read returning lines[-2][1:] instead of lines[-2][1:-1]
ReadResultKeepsNewline(ls) ==
    IF Len(ls) < 3 THEN Exc("AssertionError")
    ELSE LET l == ls[Len(ls) - 1]
         IN  IF l[1] # CR THEN Exc("AssertionError")
             ELSE IF l[Len(l)] # NL THEN Exc("AssertionError")
             ELSE Ret(BytesV(Tail(l)))

\* _read without its assert on the first byte of lines[-2]
ReadResultNoStart(ls) ==
    IF Len(ls) < 3 THEN Exc("AssertionError")
    ELSE LET l == ls[Len(ls) - 1]
         IN  IF l[Len(l)] # NL THEN Exc("AssertionError")
             ELSE Ret(BytesV(SubSeq(l, 2, Len(l) - 1)))

\* _read, after its loops: the asserts and the slice
ReadResult(ls) ==
    IF Len(ls) < 3 THEN Exc("AssertionError")
    ELSE LET l == ls[Len(ls) - 1]
         IN  IF l[1] # CR THEN Exc("AssertionError")
             ELSE IF l[Len(l)] # NL THEN Exc("AssertionError")
             ELSE Ret(BytesV(SubSeq(l, 2, Len(l) - 1)))

\* _consume asserting that the last line is the prompt as well
ConsumeResultWantsPrompt(ls) ==
    IF Len(ls) < 2 \/ ls[Len(ls)] # <<CR, PROMPT>> THEN Exc("AssertionError")
    ELSE Ret(None)

\* _consume, after its loops: the assert
ConsumeResult(ls) ==
    IF Len(ls) < 2 THEN Exc("AssertionError") ELSE Ret(None)

\* what each query makes of the bytes _read returned
Decode(api, payload) ==
    CASE api = "value_get" ->
           IF IntParse(payload, 16).ok THEN Ret(IntV(IntParse(payload, 16).v))
           ELSE Exc("ValueError")
      [] api \in {"digit_in", "adc_in"} ->
           IF IntParse(payload, 10).ok THEN Ret(IntV(IntParse(payload, 10).v))
           ELSE Exc("ValueError")
      [] OTHER -> Ret(StrV(payload))

\* __getitem__ read as self.value >> (channel & 1)
GetItemResultShift(o, channel) ==
    IF o.kind = "ret" THEN Ret(IntV(o.val.i \div (2 ^ (channel % 2)))) ELSE o

\* __getitem__: self.value >> channel & 1
GetItemResult(o, channel) ==
    IF o.kind = "ret" THEN Ret(IntV(BitOf(o.val.i, channel))) ELSE o

\* f'<gpio version: {self.version}; id: {self.id}; bits: {self.value:08b}>'
ReprText(version, id, value) ==
    <<"<gpio version: ">> \o version.s \o <<"; id: ">> \o id.s
        \o <<"; bits: ">> \o Fmt08b(value.i) \o <<">">>

\* DIGIT_OUT.__setitem__ and GPIO.__setitem__ passing bit instead of bit & 1
DigitOutCmdTruthy(channel, bit) == CmdGpioWrite(channel, bit)

\* DIGIT_OUT.__setitem__: self._gpio._gpio_write(channel, bit & 1)
DigitOutCmd(channel, bit) == CmdGpioWrite(channel, BitAnd(bit, 1))

\* the command main's arguments select
MainOp ==
    IF argv.mode = "digit"
    THEN IF Truthy(argv.value) THEN Op("digit_out", argv.channel, argv.value)
         ELSE Op("digit_in", argv.channel, None)
    ELSE IF Truthy(argv.value) THEN NoOp
         ELSE Op("adc_in", argv.channel, None)

\* who may start operation o now
MayCall(o) ==
    /\ pc = "idle"
    /\ sharing = "mutex" => pcB = "idle"
    /\ \/ how = "direct" /\ sess = "ready" /\ script = <<>> /\ nops < MaxOps
       \/ how = "direct" /\ sess = "ready" /\ nops < Len(script)
              /\ o = script[nops + 1]
       \/ how = "cli" /\ sess = "body" /\ nops = 0 /\ nops < MaxOps /\ o = MainOp

\* an operation starts: _write(cmd), then the locals of _read / _consume
Begin(o, cmd) ==
    /\ MayCall(o)
    /\ op' = o
    /\ stage' = 1
    /\ acc' = <<>>
    /\ lines' = <<>>
    /\ line' = <<>>
    /\ out' = NoOut
    /\ raw' = None
    /\ pc' = "skip"
    /\ tx' = tx \o cmd \o <<CR>>
    /\ nops' = nops + 1
    /\ wlog' = <<cmd>>
    /\ written' = written + 1
    /\ ioafter' = (ioafter \/ desync)
    /\ lastAns' = NoAns
    /\ idArg' = IF o.api = "id_set" THEN o.value ELSE idArg
    /\ UNCHANGED <<sessVars, inflight, rx, dev, bursts, answered, gapped, desync>>

ValueGet == Begin(Op("value_get", 0, None), CmdReadall)

ValueSet == \E v \in Values : Begin(Op("value_set", 0, IntV(v)), CmdWriteall(v))

Version == Begin(Op("version", 0, None), CmdVer)

DigitIn == \E ch \in Channels : Begin(Op("digit_in", ch, None), CmdGpioRead(ch))

DigitOut ==
    \E ch \in Channels, bit \in Bits :
        Begin(Op("digit_out", ch, IntV(bit)), DigitOutCmd(ch, bit))

AdcIn == \E ch \in Channels : Begin(Op("adc_in", ch, None), CmdAdcRead(ch))

IdGet == Begin(Op("id_get", 0, None), CmdIdGet)

IdSet == \E value \in IdValues : Begin(Op("id_set", 0, value), CmdIdSet(value))

SetMask == \E v \in Values : Begin(Op("set_mask", 0, IntV(v)), CmdIomask(v))

SetIodir == \E v \in Values : Begin(Op("set_iodir", 0, IntV(v)), CmdIodir(v))

Repr == Begin(Op("repr", 0, None), CmdVer)

\* type(channel) == int and channel in range(8)
InRange8(k) == k.t = "int" /\ k.i \in 0..7

\* __getitem__ / __setitem__ with a channel that fails the test: nothing is
\* written or read and the call returns None
Skip(o) ==
    /\ MayCall(o)
    /\ op' = o
    /\ stage' = 1
    /\ acc' = <<>>
    /\ lines' = <<>>
    /\ line' = <<>>
    /\ out' = Ret(None)
    /\ raw' = None
    /\ nops' = nops + 1
    /\ wlog' = <<>>
    /\ UNCHANGED <<sessVars, pc, wireVars, written, gapped, desync, ioafter, idArg>>

\* GPIO.__getitem__: return self.value >> channel & 1
GetItem ==
    \E k \in Keys :
        IF InRange8(k) THEN Begin(KeyOp("getitem", k, None), CmdReadall)
        ELSE Skip(KeyOp("getitem", k, None))

\* GPIO.__setitem__: self._gpio_write(channel, bit & 1)
SetItem ==
    \E k \in Keys, bit \in Bits :
        IF InRange8(k) THEN Begin(KeyOp("setitem", k, IntV(bit)), DigitOutCmd(k.i, bit))
        ELSE Skip(KeyOp("setitem", k, IntV(bit)))

\* the command of the query at place k of __repr__
ReprCmd(k) == CASE k = 1 -> CmdVer [] k = 2 -> CmdIdGet [] OTHER -> CmdReadall

\* The loops of _read or _consume have ended with the lines ls; o is what the
\* query or command in progress made of them, r what _read returned.
Complete(ls, o, r) ==
    /\ lines' = ls
    /\ line' = <<>>
    /\ raw' = r
    /\ desync' = (desync \/ o = Exc("AssertionError"))
    /\ gapped' = (gapped \/ ~Drained)
    /\ IF op.api = "repr" /\ o.kind = "ret" /\ stage < 3
       THEN /\ acc' = Append(acc, o.val)
            /\ stage' = stage + 1
            /\ pc' = "skip"
            /\ out' = out
            /\ tx' = tx \o ReprCmd(stage + 1) \o <<CR>>
            /\ wlog' = Append(wlog, ReprCmd(stage + 1))
            /\ written' = written + 1
            /\ ioafter' = (ioafter \/ desync')
       ELSE /\ acc' = acc
            /\ stage' = stage
            /\ pc' = "idle"
            /\ out' = IF op.api = "repr" /\ o.kind = "ret"
                      THEN Ret(StrV(ReprText(acc[1], acc[2], o.val)))
                      ELSE o
            /\ tx' = tx
            /\ wlog' = wlog
            /\ written' = written
            /\ ioafter' = (ioafter \/ desync)
    /\ UNCHANGED <<sessVars, op, inflight, rx, dev, bursts, answered, lastAns,
                   nops, idArg>>

\* one more readline of a loop that goes on
Poll(ls, l, place) ==
    /\ lines' = ls
    /\ line' = l
    /\ rx' = AfterReadline(rx)
    /\ pc' = place
    /\ ioafter' = (ioafter \/ desync)
    /\ UNCHANGED <<sessVars, op, stage, acc, out, raw, tx, inflight, dev, bursts,
                   answered, lastAns, nops, wlog, written, gapped, desync, idArg>>

\* _read with a first loop that gives up at the first empty read
ReadSkipGivesUp ==
    /\ pc = "skip"
    /\ IsQuery
    /\ IF Readline(rx) = <<>>
       THEN Complete(lines, Exc("AssertionError"), None)
       ELSE Poll(lines, Readline(rx), "collect")

\* _read: while not line: line = self._serial_port.readline()
ReadSkip ==
    /\ pc = "skip"
    /\ IsQuery
    /\ Poll(lines, Readline(rx), IF Readline(rx) = <<>> THEN "skip" ELSE "collect")

\* _read: while line: lines.append(line); line = self._serial_port.readline()
\* and, when the line read is empty, the asserts, the slice and the decoding
ReadCollect ==
    /\ pc = "collect"
    /\ IsQuery
    /\ LET ls == Append(lines, line)
           r == ReadResult(ls)
       IN  IF Readline(rx) # <<>>
           THEN Poll(ls, Readline(rx), "collect")
           ELSE LET o == IF r.kind = "exc" THEN r ELSE Decode(CurApi, r.val.s)
                IN  Complete(ls, IF op.api = "getitem" THEN GetItemResult(o, op.channel)
                                 ELSE o,
                             IF r.kind = "exc" THEN None ELSE r.val)

\* _consume: while not line: line = self._serial_port.readline()
ConsumeSkip ==
    /\ pc = "skip"
    /\ ~IsQuery
    /\ Poll(lines, Readline(rx), IF Readline(rx) = <<>> THEN "skip" ELSE "collect")

\* _consume: while line: lines.append(line); line = self._serial_port.readline()
\* and, when the line read is empty, the assert
ConsumeCollect ==
    /\ pc = "collect"
    /\ ~IsQuery
    /\ LET ls == Append(lines, line)
       IN  IF Readline(rx) # <<>>
           THEN Poll(ls, Readline(rx), "collect")
           ELSE Complete(ls, ConsumeResult(ls), None)

\* ------------------------------------------------------------ second caller
\* A second caller reads version on the same facade: _write('ver')
VersionB ==
    /\ sharing # "alone"
    /\ how = "direct"
    /\ sess = "ready"
    /\ pcB = "idle"
    /\ opB = NoOp
    /\ sharing = "mutex" => pc = "idle"
    /\ opB' = Op("version", 0, None)
    /\ pcB' = "skip"
    /\ linesB' = <<>>
    /\ lineB' = <<>>
    /\ outB' = NoOut
    /\ rawB' = None
    /\ tx' = tx \o CmdVer \o <<CR>>
    /\ written' = written + 1
    /\ UNCHANGED <<ownerVars, sharing, facVars, inflight, rx, dev, bursts, answered,
                   lastAns, nops, wlog, gapped, desync, ioafter, idArg>>

\* the second caller's _read: while not line: line = self._serial_port.readline()
ReadSkipB ==
    /\ pcB = "skip"
    /\ lineB' = Readline(rx)
    /\ rx' = AfterReadline(rx)
    /\ pcB' = IF Readline(rx) = <<>> THEN "skip" ELSE "collect"
    /\ UNCHANGED <<ownerVars, sharing, opB, linesB, outB, rawB, facVars, tx, inflight,
                   dev, bursts, answered, lastAns, logVars>>

\* the second caller's _read: while line: lines.append(line); line = ...readline()
\* and, when the line read is empty, the asserts, the slice and decode()
ReadCollectB ==
    /\ pcB = "collect"
    /\ LET ls == Append(linesB, lineB)
           r == ReadResult(ls)
       IN  /\ linesB' = ls
           /\ lineB' = Readline(rx)
           /\ rx' = AfterReadline(rx)
           /\ IF Readline(rx) # <<>>
              THEN pcB' = "collect" /\ outB' = outB /\ rawB' = rawB
              ELSE /\ pcB' = "idle"
                   /\ outB' = (IF r.kind = "exc" THEN r ELSE Decode("version", r.val.s))
                   /\ rawB' = (IF r.kind = "exc" THEN None ELSE r.val)
    /\ UNCHANGED <<ownerVars, sharing, opB, facVars, tx, inflight, dev, bursts, answered,
                   lastAns, logVars>>

\* ----------------------------------------------------------------- session
\* GPIO.__init__ called by the owner of the facade: serial.Serial(...) opens
\* the port or raises
GpioInit ==
    /\ how = "direct"
    /\ sess = "new"
    /\ \E opened \in BOOLEAN :
          IF opened
          THEN port' = "open" /\ sess' = "ready" /\ raised' = raised
          ELSE port' = port /\ sess' = "done" /\ raised' = "SerialException"
    /\ UNCHANGED <<otherVars, how, argv, script, printed, facVars, wireVars, logVars>>

\* GPIO.close called by the owner of the facade: self._serial_port.close()
\* closes the port or raises
Close ==
    /\ how = "direct"
    /\ sess = "ready"
    /\ pc = "idle"
    /\ \E closed \in BOOLEAN :
          IF closed
          THEN port' = "closed" /\ raised' = raised
          ELSE port' = port /\ raised' = "OSError"
    /\ sess' = "done"
    /\ UNCHANGED <<otherVars, how, argv, script, printed, facVars, wireVars, logVars>>

\* open(), up to its yield: try: g = GPIO(port_file); when that raises,
\* except: pass, then finally: g.close() with g unbound
OpenEnter ==
    /\ how = "cli"
    /\ sess = "new"
    /\ \E opened \in BOOLEAN :
          IF opened
          THEN port' = "open" /\ sess' = "body" /\ raised' = raised
          ELSE port' = port /\ sess' = "done" /\ raised' = "UnboundLocalError"
    /\ UNCHANGED <<otherVars, how, argv, script, printed, facVars, wireVars, logVars>>

\* open(), after its yield: except: pass swallows what the body raised, and
\* finally: g.close() closes the port or raises
OpenExit ==
    /\ \E closed \in BOOLEAN :
          IF closed
          THEN port' = "closed" /\ raised' = ""
          ELSE port' = port /\ raised' = "OSError"
    /\ sess' = "done"

\* the body of the with statement ends normally; main prints what it read
BodyReturn ==
    /\ how = "cli"
    /\ sess = "body"
    /\ pc = "idle"
    /\ out.kind # "exc"
    /\ nops = 1
    /\ printed' = IF op.api \in Queries THEN out.val ELSE printed
    /\ OpenExit
    /\ UNCHANGED <<otherVars, how, argv, script, facVars, wireVars, logVars>>

\* an operation of the body has raised: the exception leaves the body
BodyRaise ==
    /\ how = "cli"
    /\ sess = "body"
    /\ pc = "idle"
    /\ out.kind = "exc"
    /\ OpenExit
    /\ UNCHANGED <<otherVars, how, argv, script, printed, facVars, wireVars, logVars>>

\* main, mode adc with a value: l = g.adc_in; l[channel] = value, and ADC_IN
\* has no __setitem__
MainAssignAdc ==
    /\ how = "cli"
    /\ sess = "body"
    /\ nops = 0
    /\ argv.mode = "adc"
    /\ Truthy(argv.value)
    /\ out' = Exc("TypeError")
    /\ nops' = 1
    /\ UNCHANGED <<sessVars, pc, op, stage, acc, lines, line, raw, wireVars,
                   wlog, written, gapped, desync, ioafter, idArg>>

\* the exit status of the script: an exception that leaves main ends it with 1
ExitStatus == IF raised = "" THEN 0 ELSE 1

Next ==
    \/ GpioInit
    \/ Close
    \/ OpenEnter
    \/ BodyReturn
    \/ BodyRaise
    \/ MainAssignAdc
    \/ ValueGet
    \/ ValueSet
    \/ Version
    \/ DigitIn
    \/ DigitOut
    \/ AdcIn
    \/ IdGet
    \/ IdSet
    \/ SetMask
    \/ SetIodir
    \/ Repr
    \/ GetItem
    \/ SetItem
    \/ ReadSkip
    \/ ReadCollect
    \/ ConsumeSkip
    \/ ConsumeCollect
    \/ DeviceRespond
    \/ Arrive

Spec == Init /\ [][Next]_vars

\* The owner of one facade, and only some of its operations: the five
\* queries, the value property, the id property.
InitOwner == Init /\ how = "direct"

\* The owner issues one query, or two in a row.
ReadCommands ==
    {Op("value_get", 0, None), Op("version", 0, None), Op("id_get", 0, None)}
    \cup { Op("digit_in", ch, None) : ch \in Channels }
    \cup { Op("adc_in", ch, None) : ch \in Channels }

ReadScripts ==
    { <<o>> : o \in ReadCommands }
    \cup { <<o, p>> : o \in ReadCommands, p \in ReadCommands }

InitRead == InitAs({"direct"}, ReadScripts, {"alone"})

NextRead ==
    \/ GpioInit
    \/ ValueGet
    \/ Version
    \/ DigitIn
    \/ AdcIn
    \/ IdGet
    \/ ReadSkip
    \/ ReadCollect
    \/ DeviceRespond
    \/ Arrive

SpecRead == InitRead /\ [][NextRead]_vars

NextValue ==
    \/ GpioInit
    \/ ValueGet
    \/ ValueSet
    \/ ReadSkip
    \/ ReadCollect
    \/ ConsumeSkip
    \/ ConsumeCollect
    \/ DeviceRespond
    \/ Arrive

SpecValue == InitOwner /\ [][NextValue]_vars

NextId ==
    \/ GpioInit
    \/ IdGet
    \/ IdSet
    \/ ReadSkip
    \/ ReadCollect
    \/ ConsumeSkip
    \/ ConsumeCollect
    \/ DeviceRespond
    \/ Arrive

SpecId == InitOwner /\ [][NextId]_vars

\* The value property when the device answers every command, the bytes it
\* sends arrive, and the loops of _read and _consume go on polling.
LiveScripts ==
    { <<Op("value_set", 0, IntV(v)), Op("value_get", 0, None)>> : v \in {0, 255} }
    \cup { <<Op("value_get", 0, None), Op("value_set", 0, IntV(255))>> }

InitLive == InitAs({"direct"}, LiveScripts, {"alone"})

\* one more readline of the loop that is running (at most one of them is)
Loops == ReadSkip \/ ReadCollect \/ ConsumeSkip \/ ConsumeCollect

SpecLive ==
    /\ InitLive
    /\ [][NextValue]_vars
    /\ WF_vars(DeviceRespond)
    /\ WF_vars(Arrive)
    /\ WF_vars(Loops)

\* The owner sets the direction of the pins, writes the register, sets the
\* mask, writes the register again and reads it; or writes and reads it on
\* the module as it was powered on.
RegisterScripts ==
    { <<Op("set_iodir", 0, IntV(d)), Op("value_set", 0, IntV(w)),
        Op("set_mask", 0, IntV(m)), Op("value_set", 0, IntV(v)),
        Op("value_get", 0, None)>> :
          d \in {0, 10}, w \in {255, 10}, m \in {255, 10, 0}, v \in Values }
    \cup { <<Op("value_set", 0, IntV(v)), Op("value_get", 0, None)>> : v \in Values }

InitRegister == InitAs({"direct"}, RegisterScripts, {"alone"})

NextRegister ==
    \/ GpioInit
    \/ ValueGet
    \/ ValueSet
    \/ SetMask
    \/ SetIodir
    \/ ReadSkip
    \/ ReadCollect
    \/ ConsumeSkip
    \/ ConsumeCollect
    \/ DeviceRespond
    \/ Arrive

SpecRegister == InitRegister /\ [][NextRegister]_vars

\* The owner writes one pin, then reads it, with or without an analog read
\* in between.
PinScripts ==
    { <<Op("digit_out", ch, IntV(b)), Op("digit_in", ch, None)>> :
          ch \in {0, 4, 7}, b \in {0, 1} }
    \cup { <<Op("digit_out", ch, IntV(b)), Op("adc_in", a, None),
             Op("digit_in", ch, None)>> :
               ch \in {0, 4, 7}, b \in {0, 1}, a \in {0, 4, 7} }

InitPins == InitAs({"direct"}, PinScripts, {"alone"})

NextPins ==
    \/ GpioInit
    \/ DigitIn
    \/ DigitOut
    \/ AdcIn
    \/ ReadSkip
    \/ ReadCollect
    \/ ConsumeSkip
    \/ ConsumeCollect
    \/ DeviceRespond
    \/ Arrive

SpecPins == InitPins /\ [][NextPins]_vars

\* Two callers of one facade: the owner reads value, a second caller reads
\* version, with or without a mutex around each whole operation.
TwoScripts == { <<Op("value_get", 0, None)>> }

InitTwo == InitAs({"direct"}, TwoScripts, {"free", "mutex"})

NextTwo ==
    \/ GpioInit
    \/ ValueGet
    \/ ReadSkip
    \/ ReadCollect
    \/ VersionB
    \/ ReadSkipB
    \/ ReadCollectB
    \/ DeviceRespond
    \/ Arrive

SpecTwo == InitTwo /\ [][NextTwo]_vars

\* The owner assigns through digit_out or through GPIO[...], or reads
\* GPIO[...], alone or after an assignment.
IndexScripts ==
    { <<Op("digit_out", ch, IntV(b))>> : ch \in Channels, b \in Bits }
    \cup { <<KeyOp("setitem", k, IntV(b))>> : k \in Keys, b \in Bits }
    \cup { <<KeyOp("getitem", k, None)>> : k \in Keys }
    \cup { <<KeyOp("setitem", k, IntV(b)), KeyOp("getitem", k, None)>> :
               k \in Keys, b \in Bits }
    \cup { <<KeyOp("getitem", k, None), Op("digit_out", k.i, IntV(b))>> :
               k \in {IntV(0), IntV(7)}, b \in Bits }

InitIndex == InitAs({"direct"}, IndexScripts, {"alone"})

NextIndex ==
    \/ GpioInit
    \/ DigitOut
    \/ GetItem
    \/ SetItem
    \/ ReadSkip
    \/ ReadCollect
    \/ ConsumeSkip
    \/ ConsumeCollect
    \/ DeviceRespond
    \/ Arrive

SpecIndex == InitIndex /\ [][NextIndex]_vars

\* The owner issues one write-only command, alone or after a read of the
\* register.
DrainCommands ==
    { Op("value_set", 0, IntV(v)) : v \in Values }
    \cup { Op("set_mask", 0, IntV(v)) : v \in Values }
    \cup { Op("set_iodir", 0, IntV(v)) : v \in Values }
    \cup { Op("digit_out", ch, IntV(b)) : ch \in Channels, b \in Bits }
    \cup { Op("id_set", 0, value) : value \in IdValues }

DrainScripts ==
    { <<o>> : o \in DrainCommands }
    \cup { <<Op("value_get", 0, None), o>> : o \in DrainCommands }

InitDrain == InitAs({"direct"}, DrainScripts, {"alone"})

NextDrain ==
    \/ GpioInit
    \/ ValueGet
    \/ ValueSet
    \/ SetMask
    \/ SetIodir
    \/ DigitOut
    \/ IdSet
    \/ ReadSkip
    \/ ReadCollect
    \/ ConsumeSkip
    \/ ConsumeCollect
    \/ DeviceRespond
    \/ Arrive

SpecDrain == InitDrain /\ [][NextDrain]_vars

\* ------------------------------------------------------------------ claims
\* n in 0..255 as exactly two lowercase hexadecimal digits
Hex2(n) == <<Digits[(n \div 16) + 1], Digits[(n % 16) + 1]>>

\* n in 0..99999999 as exactly eight decimal digits
Dec8(n) == [k \in 1..8 |-> Digits[((n \div (10 ^ (8 - k))) % 10) + 1]]

\* s right-justified in a field of eight characters, cut to its first eight
Field8(s) ==
    [k \in 1..8 |->
        IF Len(s) >= 8 THEN s[k]
        ELSE IF k <= 8 - Len(s) THEN SP ELSE s[k - (8 - Len(s))]]

\* a line that starts with a carriage return and ends with a newline
Framed(l) == l[1] = CR /\ l[Len(l)] = NL

\* a query or a command has just ended and nothing has been started since
Ended == pc = "idle" /\ op.api # ""

\* C1: a single caller's operation drains the whole response of its command
\* before the next command can be written, whatever the chunking: when an
\* operation has ended no byte of a response is left over or still to come,
\* and a query that returned, returned the payload the device sent for the
\* command it wrote.
C1_DrainsBeforeNext ==
    Ended =>
        /\ Drained
        /\ raw # None => answered = written /\ raw.s = lastAns.payload

\* C2: when at least three lines were assembled and the second-to-last
\* starts with '\r' and ends with '\n', _read returns that line without its
\* first and its last byte, and nothing else removed.
C2_ReadReturnsSecondToLast ==
    (Ended /\ IsQuery /\ Len(lines) >= 3 /\ Framed(lines[Len(lines) - 1])) =>
        /\ raw.t = "bytes"
        /\ <<CR>> \o raw.s \o <<NL>> = lines[Len(lines) - 1]

\* C2 witness: an analog read returned the payload 1023 from more than three
\* lines.
C2_Witness ==
    /\ Ended
    /\ op.api = "adc_in"
    /\ Len(lines) >= 4
    /\ Framed(lines[Len(lines) - 1])
    /\ raw = BytesV(<<"1", "0", "2", "3">>)

\* C3: a query whose response has fewer than three lines, or whose
\* second-to-last line does not start with '\r' or does not end with '\n',
\* raises the framing error (AssertionError) and returns no value.
C3_FramingErrorRaised ==
    (Ended /\ IsQuery /\ (Len(lines) < 3 \/ ~Framed(lines[Len(lines) - 1]))) =>
        /\ out = Exc("AssertionError")
        /\ raw = None

\* C3 witness: an analog read ended on three or more lines whose
\* second-to-last does not start with '\r'.
C3_Witness ==
    /\ Ended
    /\ op.api = "adc_in"
    /\ Len(lines) >= 3
    /\ lines[Len(lines) - 1][1] # CR
    /\ out = Exc("AssertionError")

\* C4: the views reject a channel outside 0..7 with ChannelOutOfRange and
\* write nothing to the port.
C4_ViewsRejectChannel ==
    (op.api \in {"digit_in", "digit_out", "adc_in"} /\ op.channel \notin 0..7) =>
        /\ wlog = <<>>
        /\ out = Exc("ChannelOutOfRange")

\* C5: an error raised by an operation inside the scoped session reaches the
\* caller of the session, and main ends with a non-zero status.
C5_ErrorsSurface ==
    (how = "cli" /\ sess = "done" /\ out.kind = "exc") =>
        /\ raised = out.exc
        /\ ExitStatus # 0

\* C6: on every way out of the scoped session the port that was opened is
\* closed and the cleanup raises nothing, an error of close included.
C6_CleanupCloses ==
    (how = "cli" /\ sess = "done") =>
        /\ port # "open"
        /\ raised \notin {"UnboundLocalError", "OSError"}

\* C7: once a framing assertion has failed on a session the facade does not
\* write to or read from the port again.
C7_DesyncIsTerminal == ~ioafter

\* C8: set_mask and set_iodir write the value masked to 8 bits as exactly two
\* lowercase hexadecimal digits.
C8_MaskAndDirHex2 ==
    op.api \in {"set_mask", "set_iodir"} =>
        wlog = << <<IF op.api = "set_mask" THEN "gpio iomask " ELSE "gpio iodir ">>
                  \o Hex2(op.value.i % 256) >>

\* C9: the value setter writes exactly one command, 'gpio writeall ' and
\* v AND 255 as exactly two lowercase hexadecimal digits, then drains the
\* response and returns nothing: it ends with None or, when fewer than two
\* lines were assembled, with the assertion of _consume, and with None when
\* every response so far was drained.
C9_WriteallHex2 ==
    op.api = "value_set" =>
        /\ wlog = << <<"gpio writeall ">> \o Hex2(op.value.i % 256) >>
        /\ pc = "idle" =>
              /\ raw = None
              /\ out = (IF Len(lines) >= 2 THEN Ret(None) ELSE Exc("AssertionError"))
              /\ ~gapped => out = Ret(None) /\ Drained

\* C9 witness: value = -1 has written ff and returned.
C9_Witness ==
    /\ op = Op("value_set", 0, IntV(-1))
    /\ wlog = << <<"gpio writeall ", "f", "f">> >>
    /\ pc = "idle"
    /\ out = Ret(None)

\* C10: the id setter writes 'id set ' and exactly eight characters: an
\* integer of at most eight digits zero-padded to eight digits, a string cut
\* to its first eight characters and right-justified; and a later id read
\* that returns on a drained session returns those eight characters.
C10_IdentityField ==
    /\ op.api = "id_set" =>
          /\ Len(wlog) = 1
          /\ wlog[1][1] = "id set "
          /\ Len(wlog[1]) = 9
          /\ (op.value.t = "int" /\ op.value.i \in 0..99999999) =>
                Tail(wlog[1]) = Dec8(op.value.i)
          /\ op.value.t = "str" => Tail(wlog[1]) = Field8(op.value.s)
    /\ (Ended /\ op.api = "id_get" /\ out.kind = "ret" /\ ~gapped /\ idArg # None) =>
          /\ out.val.t = "str"
          /\ Len(out.val.s) = 8
          /\ (idArg.t = "int" /\ idArg.i \in 0..99999999) =>
                out.val.s = Dec8(idArg.i)
          /\ idArg.t = "str" => out.val.s = Field8(idArg.s)

\* C10 witness: id = 0x123, then the id read returns 00000291.
C10_Witness ==
    /\ Ended
    /\ op.api = "id_get"
    /\ idArg = IntV(291)
    /\ ~gapped
    /\ out = Ret(StrV(<<"0", "0", "0", "0", "0", "2", "9", "1">>))

\* the operation before the one in progress, in a script
Before == script[nops - 1]

\* the value getter has returned, right after value = v, on a session whose
\* responses were all drained
ReadBack ==
    /\ Ended
    /\ nops >= 2
    /\ script # <<>>
    /\ op.api = "value_get"
    /\ Before.api = "value_set"
    /\ out.kind = "ret"
    /\ ~gapped

\* C11 as the spec states it: value = v, then value returns v on the bits the
\* mask includes (with mask 0xff: 0xff after 0xff, 0x00 after 0x00).
C11_RoundTrip ==
    ReadBack =>
        \A n \in 0..7 :
            BitOf(dev.mask, n) = 1 => BitOf(out.val.i, n) = BitOf(Before.value.i, n)

\* C11 amended: gpio writeall leaves v in the register on the bits the mask
\* includes and the prior state on the others; the gpio readall that follows
\* it is answered, and value returns, on every pin in output mode v's bit
\* where the mask includes it and the register's prior bit where it does
\* not (a pin in input mode reads its real value instead).
C11_RoundTripOnOutputs ==
    /\ (op.api = "value_set" /\ answered = written /\ lastAns.cmd # <<>>) =>
          \A n \in 0..7 :
              BitOf(dev.reg, n) = (IF BitOf(dev.mask, n) = 1 THEN BitOf(op.value.i, n)
                                  ELSE BitOf(lastAns.before.reg, n))
    /\ (script # <<>> /\ nops >= 2 /\ op.api = "value_get" /\ Before.api = "value_set"
            /\ answered = written /\ lastAns.cmd # <<>>) =>
          \A n \in 0..7 :
              BitOf(dev.iodir, n) = 0 =>
                  BitOf(DigitsValue(lastAns.payload, 16), n)
                      = (IF BitOf(dev.mask, n) = 1 THEN BitOf(Before.value.i, n)
                         ELSE BitOf(lastAns.before.reg, n))
    /\ ReadBack =>
          /\ out.val.t = "int"
          /\ out.val.i \in 0..255
          /\ \A n \in 0..7 :
                 BitOf(dev.iodir, n) = 0 =>
                     BitOf(out.val.i, n)
                         = (IF BitOf(dev.mask, n) = 1 THEN BitOf(Before.value.i, n)
                            ELSE BitOf(dev.reg, n))

\* C11 witness: all pins output, the register 0xff, the mask 0x0a, then
\* value = 0 and value returns 0xf5.
C11_Witness ==
    /\ ReadBack
    /\ nops = 5
    /\ script[1].value = IntV(0)
    /\ script[2].value = IntV(255)
    /\ script[3].value = IntV(10)
    /\ Before.value = IntV(0)
    /\ out = Ret(IntV(245))

\* the device has answered the command of the operation in progress
Answered == op.api # "" /\ answered = written /\ lastAns.cmd # <<>>

\* the pin a single-channel operation addresses, -1 when it addresses none
PinOf(o) ==
    CASE o.api \in {"digit_in", "digit_out"} /\ o.channel \in 0..7 -> o.channel
      [] o.api = "adc_in" /\ o.channel \in 0..3 -> o.channel
      [] o.api = "adc_in" /\ o.channel \in 4..5 -> o.channel + 2
      [] OTHER -> -1

\* digit_in[ch] has returned on a session whose responses were all drained
PinReadBack ==
    /\ Ended
    /\ nops >= 2
    /\ script # <<>>
    /\ op.api = "digit_in"
    /\ out.kind = "ret"
    /\ ~gapped

\* C12 as the spec states it, for every channel 0..7: digit_out[ch] = 1 then
\* digit_in[ch] returns 1, and digit_out[ch] = 1, adc_in[ch], digit_in[ch]
\* returns 0.
C12_DirectionOverride ==
    /\ (PinReadBack /\ Before = Op("digit_out", op.channel, IntV(1))) =>
          out.val = IntV(1)
    /\ (PinReadBack /\ nops = 3 /\ Before.api = "adc_in"
            /\ Before.channel = op.channel
            /\ script[1] = Op("digit_out", op.channel, IntV(1))) =>
          out.val = IntV(0)

\* C12 amended: digit_out[ch] = 1 then digit_in[ch] is answered 1 and returns
\* 1; digit_in[ch] after an analog read of the pin ch (adc_in[ch] for ch in
\* 0..3, where the analog channel has the number of the pin) is answered 0
\* and returns 0; and the device, on each single-channel command, sets the
\* direction bit of the pin the command addresses (read and adc read: input,
\* set and clear: output) and leaves the direction bits of the other pins.
C12_DirectionOverrideOfPin ==
    /\ (script # <<>> /\ nops >= 2 /\ op.api = "digit_in" /\ op.channel \in 0..7
            /\ Before = Op("digit_out", op.channel, IntV(1))) =>
          /\ Answered => lastAns.payload = <<"1">>
          /\ PinReadBack => out.val = IntV(1)
    /\ (script # <<>> /\ nops >= 2 /\ op.api = "digit_in"
            /\ Before.api = "adc_in" /\ PinOf(Before) = op.channel) =>
          /\ Answered => lastAns.payload = <<"0">>
          /\ PinReadBack => out.val = IntV(0)
    /\ (Answered /\ PinOf(op) # -1) =>
          \A n \in 0..7 :
              BitOf(dev.iodir, n) =
                  (IF n = PinOf(op) THEN (IF op.api = "digit_out" THEN 0 ELSE 1)
                   ELSE BitOf(lastAns.before.iodir, n))

\* C12 witness: digit_out[0] = 1, adc_in[0], then digit_in[0] returns 0 and
\* pin 0 alone is an input again.
C12_Witness ==
    /\ PinReadBack
    /\ nops = 3
    /\ script[1] = Op("digit_out", 0, IntV(1))
    /\ Before = Op("adc_in", 0, None)
    /\ op.channel = 0
    /\ out = Ret(IntV(0))
    /\ dev.iodir = 255

\* C13: main reads and prints when no value is given, and writes the value,
\* 0 included, when one is given.
C13_ValueMeansWrite ==
    (how = "cli" /\ nops >= 1) =>
        /\ argv.value = None =>
              /\ op.api = (IF argv.mode = "adc" THEN "adc_in" ELSE "digit_in")
              /\ op.channel = argv.channel
              /\ (sess = "done" /\ out.kind = "ret") => printed = out.val
        /\ argv.value # None =>
              /\ op.api \notin Queries
              /\ op.api # ""
              /\ op.channel = argv.channel
              /\ op.value = argv.value

\* a whole line of the device: one that ends with '\n', or the prompt
WholeLine(l) == l[Len(l)] = NL \/ l = <<CR, PROMPT>>

\* C14: whatever the chunking, the lines assembled for one response (to a
\* command with a channel in 0..7) are whole lines of the device, and the second-to-last of a response with a
\* payload is the whole payload line.
C14_OnlyCompleteLines ==
    (Ended /\ lines # <<>> /\ op.channel \in 0..7) =>
        /\ \A k \in 1..Len(lines) : WholeLine(lines[k])
        /\ (IsQuery /\ answered = written /\ lastAns.has /\ Len(lines) >= 2) =>
              lines[Len(lines) - 1] = <<CR>> \o lastAns.payload \o <<NL>>

\* C15: the loops of _read and _consume have no poll bound. While nothing has
\* arrived the first loop goes on polling, whatever else happens; an
\* operation that has ended has read at least one non-empty line and then an
\* empty one; and when the device answers and its bytes arrive, every
\* operation that was started returns or raises.
C15_PollLoopsEnd ==
    /\ [][(pc = "skip" /\ rx = <<>>) => (pc' = "skip" /\ lines' = <<>>)]_vars
    /\ []((Ended /\ wlog # <<>>) =>
            /\ lines # <<>>
            /\ line = <<>>
            /\ \A k \in 1..Len(lines) : lines[k] # <<>>)
    /\ ((pc # "idle") ~> (pc = "idle"))

\* C15 witness: value has returned after a response that arrived in two
\* parts.
C15_Witness ==
    /\ Ended
    /\ op.api = "value_get"
    /\ out.kind = "ret"
    /\ bursts >= 1
    /\ Drained

\* a caller has been returned the payload of the other caller's command
Crossed ==
    \/ pc = "idle" /\ op.api = "value_get" /\ raw = BytesV(DevVersion)
    \/ pcB = "idle" /\ opB.api = "version" /\ rawB \notin {None, BytesV(DevVersion)}

\* a caller has failed a framing check
FramingFailed == out = Exc("AssertionError") \/ outB = Exc("AssertionError")

\* two callers without a mutex: the owner's value has returned 0xa8, the
\* version the device answered to the second caller
C16_Interleaved == sharing = "free" /\ bursts = 0 /\ out = Ret(IntV(168))

\* C16: when each whole operation of the two callers is under a mutex, no
\* caller is returned the payload of the other's command and no caller fails
\* a framing check.
C16_MutexPreventsDesync == sharing = "mutex" => ~Crossed /\ ~FramingFailed

\* a channel -9..9 in decimal
Dec1(n) == IF n < 0 THEN <<"-", Digits[1 - n]>> ELSE <<Digits[n + 1]>>

\* the lowest bit of an integer (1 for -1, 0 for 2)
LowBit(v) == v % 2

\* an assignment of the operation in progress through digit_out, whatever
\* the channel, or through GPIO[...] to a channel 0..7
PinAssigned ==
    \/ op.api = "digit_out"
    \/ op.api = "setitem" /\ op.key = "int" /\ op.channel \in 0..7

\* C17: an assignment through digit_out, or through GPIO[...] to a channel
\* 0..7, writes exactly one command, 'gpio set <ch>' when the lowest bit
\* of the value is 1 and 'gpio clear <ch>' when it is 0, then drains the
\* response and returns nothing: it ends with None or, when fewer than two
\* lines were assembled, with the assertion of _consume, and with None when
\* every response so far was drained.
C17_SetOrClearByLowBit ==
    PinAssigned =>
        /\ wlog = << <<IF LowBit(op.value.i) = 1 THEN "gpio set " ELSE "gpio clear ">>
                     \o Dec1(op.channel) >>
        /\ pc = "idle" =>
              /\ raw = None
              /\ out = (IF Len(lines) >= 2 THEN Ret(None) ELSE Exc("AssertionError"))
              /\ ~gapped => out = Ret(None) /\ Drained

\* C17 witness: GPIO[7] = 2 has written 'gpio clear 7' and returned on the
\* echo and the prompt.
C17_Witness ==
    /\ op = KeyOp("setitem", IntV(7), IntV(2))
    /\ wlog = << <<"gpio clear ", "7">> >>
    /\ pc = "idle"
    /\ out = Ret(None)
    /\ lines = << <<"gpio clear ", "7", NL>>, <<CR, PROMPT>> >>

\* C19: GPIO[channel] and GPIO[channel] = bit with a channel that is not an
\* int in 0..7 write nothing, never enter a read loop, raise nothing and
\* return None; GPIO[channel] with a channel in 0..7 writes exactly one
\* 'gpio readall' and, when it returns, returns bit channel of the
\* hexadecimal value _read returned.
C19_IndexOutOfRange ==
    /\ (op.api \in {"getitem", "setitem"} /\ ~(op.key = "int" /\ op.channel \in 0..7)) =>
          /\ wlog = <<>>
          /\ pc = "idle"
          /\ lines = <<>>
          /\ raw = None
          /\ out = Ret(None)
    /\ (op.api = "getitem" /\ op.key = "int" /\ op.channel \in 0..7) =>
          /\ wlog = <<CmdReadall>>
          /\ (pc = "idle" /\ out.kind = "ret") =>
                /\ raw.t = "bytes"
                /\ out.val = IntV((DigitsValue(raw.s, 16) \div (2 ^ op.channel)) % 2)
                /\ ~gapped => raw.s = lastAns.payload

\* C19 witness: GPIO[8] has returned None with nothing written, after an
\* assignment GPIO[8] = 1 that wrote nothing either.
C19_Witness ==
    /\ nops = 2
    /\ op = KeyOp("getitem", IntV(8), None)
    /\ out = Ret(None)
    /\ written = 0
    /\ tx = <<>>

\* GPIO[7] has returned 1, bit 7 of the 0xff the device answered
C19_InRange ==
    /\ op = KeyOp("getitem", IntV(7), None)
    /\ pc = "idle"
    /\ raw = BytesV(<<"f", "f">>)
    /\ out = Ret(IntV(1))

\* the commands that have no payload in their response
WriteOnly == {"value_set", "digit_out", "set_mask", "set_iodir", "id_set"}

\* C18: when a write-only command (aggregate write, set/clear, set mask, set
\* direction, set identity) has ended, it raised the assertion of _consume
\* exactly when fewer than two lines were assembled and otherwise returned
\* None, and no payload was extracted, whatever the lines contain.
C18_DrainChecksLengthOnly ==
    (Ended /\ op.api \in WriteOnly) =>
        /\ out = (IF Len(lines) < 2 THEN Exc("AssertionError") ELSE Ret(None))
        /\ raw = None

\* C18 witness: an aggregate write has returned None on lines that are not
\* the echo of its command followed by the prompt.
C18_Witness ==
    /\ Ended
    /\ op.api = "value_set"
    /\ out = Ret(None)
    /\ Len(lines) >= 2
    /\ lines[Len(lines)] # <<CR, PROMPT>>

\* a write-only command has raised on a response cut below two lines
C18_Short ==
    /\ Ended
    /\ op.api \in WriteOnly
    /\ Len(lines) < 2
    /\ out = Exc("AssertionError")
=============================================================================
